---------------------------- MODULE Spec2Model ----------------------------
(***************************************************************************)
(* Model of `gcloud sql instances delete`                                  *)
(* (lib/surface/sql/instances/delete.py, class Delete).                    *)
(*                                                                         *)
(* Delete.Run is straight-line, single-threaded code.  Each action below   *)
(* is one step of Run, delimited by the external call the step makes       *)
(* (validation, resource parsing, GetInstance, PromptContinue,             *)
(* DeleteInstance, GetOperation, the operation waiter, the result log).    *)
(* The outcome of every external call is chosen nondeterministically from  *)
(* the outcomes the collaborator can produce: a response, an               *)
(* apitools HttpError, or any other exception.                             *)
(*                                                                         *)
(* Python's None is the empty sequence <<>>, a present value v is <<v>>.   *)
(***************************************************************************)
EXTENDS Integers, Sequences, FiniteSets, TLC

VARIABLES
    args,               \* argparse.Namespace handed to Run
    core_project,       \* properties.VALUES.core.project (ambient)
    pc,                 \* position of Run
    instance_ref,       \* local instance_ref
    instance_resource,  \* local instance_resource
    confirmed,          \* what PromptContinue returned, once asked
    delete_result,      \* local result (the DeleteInstance response)
    operation_ref,      \* local operation_ref
    waiter,             \* state of operations.WaitForOperation
    polls,              \* polls the waiter has made
    outcome,            \* "running" | "returned" | "raised"
    error,              \* the exception Run raised, if any
    result,             \* the value Run returned
    calls,              \* external calls, in the order issued
    debug_log,          \* log.debug records
    status_log          \* log.DeletedResource records

vars == <<args, core_project, pc, instance_ref, instance_resource, confirmed,
          delete_result, operation_ref, waiter, polls, outcome, error, result,
          calls, debug_log, status_log>>

None == <<>>
Some(v) == <<v>>

-----------------------------------------------------------------------------
(* Bounds of the model *)

\* --final-backup-retention-days ranges over -1 .. MaxDays
MaxDays == 2
\* the waiter gives up (times out) after MaxPolls polls
MaxPolls == 2

-----------------------------------------------------------------------------
(* Inputs *)

InstanceNames == {"db1", "db2", "proj:db1"}
Projects == {"p1"}
OperationNames == {"op1", "op2"}
OperationStatuses == {"PENDING", "RUNNING", "DONE"}
Descriptions == {None, Some("final")}

\* datetime values the --final-backup-expiry-time flag can parse to
Datetimes ==
    { [year |-> 2026, month |-> 1, day |-> 2, hour |-> 3, minute |-> 4,
       second |-> 5, microsecond |-> 0],
      [year |-> 2027, month |-> 12, day |-> 31, hour |-> 23, minute |-> 59,
       second |-> 59, microsecond |-> 123456] }

RetentionFlagValues == {None} \cup {Some(d) : d \in -1 .. MaxDays}
ExpiryFlagValues == {None} \cup {Some(t) : t \in Datetimes}

\* The mutually exclusive group declared without its exclusion.
MutuallyExclusive_NotEnforced(a) == TRUE

\* Args: expiry time and retention days are added to one
\* add_mutually_exclusive_group, so argparse rejects a command line that
\* supplies both.
MutuallyExclusive(a) ==
    ~(a.final_backup_expiry_time # None /\ a.final_backup_retention_days # None)

\* The namespaces argparse can hand to Run.
ParsedArgs ==
    { a \in [ instance : InstanceNames,
              async_ : BOOLEAN,
              enable_final_backup : BOOLEAN,
              final_backup_description : Descriptions,
              final_backup_expiry_time : ExpiryFlagValues,
              final_backup_retention_days : RetentionFlagValues ] :
        MutuallyExclusive(a) }

-----------------------------------------------------------------------------
(* Pure helpers *)

\* validate.ValidateInstanceName rejects names of the form project:instance
IsMalformed(name) == name \in {"proj:db1"}

RECURSIVE ZeroPad(_, _)
ZeroPad(s, width) == IF Len(s) >= width THEN s ELSE ZeroPad("0" \o s, width)

\* datetime.strftime('%Y-%m-%dT%H:%M:%S.%fZ')
Strftime(t) ==
    ZeroPad(ToString(t.year), 4) \o "-" \o ZeroPad(ToString(t.month), 2) \o "-"
    \o ZeroPad(ToString(t.day), 2) \o "T" \o ZeroPad(ToString(t.hour), 2) \o ":"
    \o ZeroPad(ToString(t.minute), 2) \o ":" \o ZeroPad(ToString(t.second), 2)
    \o "." \o ZeroPad(ToString(t.microsecond), 6) \o "Z"

RetainPrompt ==
    "All of the instance data will be lost except the existing backups when the instance is deleted."
DefaultPrompt ==
    "All of the instance data will be lost when the instance is deleted."

\* Python truthiness of an optional bool
Truthy(v) == v = Some(TRUE)

\* The prompt choice with the flag test dropped.
PromptText_IgnoreFlag(res) ==
    IF res # None THEN RetainPrompt ELSE DefaultPrompt

\* lines 99-113
PromptText(res) ==
    IF res # None /\ Truthy(res[1].settings[1].retainBackupsOnDelete)
    THEN RetainPrompt
    ELSE DefaultPrompt

\* The retention computation without the > 0 test.
RetentionDays_NoPositiveCheck(a) == a.final_backup_retention_days

\* lines 119-125
RetentionDays(a) ==
    IF a.final_backup_retention_days # None
       /\ a.final_backup_retention_days[1] > 0
    THEN a.final_backup_retention_days
    ELSE None

\* lines 118, 127-130
ExpiryTime(a) ==
    IF a.final_backup_expiry_time # None
    THEN Some(Strftime(a.final_backup_expiry_time[1]))
    ELSE None

\* lines 134-141
DeleteRequest(a, ref) ==
    [ instance |-> ref.instance,
      project |-> ref.project,
      enableFinalBackup |-> a.enable_final_backup,
      finalBackupTtlDays |-> RetentionDays(a),
      finalBackupDescription |-> a.final_backup_description,
      finalBackupExpiryTime |-> ExpiryTime(a) ]

\* An except clause around GetInstance that catches nothing.
GetErrorSwallowed_Never(kind) == FALSE

\* line 89: except exceptions.HttpError
GetErrorSwallowed(kind) == kind = "HttpError"

\* The async test inverted to always wait.
AfterCreate_AlwaysWait(a) == "wait"

\* The wait call left out.
AfterCreate_NeverWait(a) == IF a.async_ THEN "getop" ELSE "log"

\* line 147: if args.async_
AfterCreate(a) == IF a.async_ THEN "getop" ELSE "wait"

-----------------------------------------------------------------------------
(* Responses of the collaborators *)

Settings == {None} \cup
            {Some([retainBackupsOnDelete |-> b]) : b \in {None, Some(TRUE), Some(FALSE)}}

GetInstanceResponses ==
    {[kind |-> "ok", body |-> Some([settings |-> s])] : s \in Settings}
    \cup {[kind |-> k, body |-> None] : k \in {"HttpError", "OtherError"}}

DeleteResponses ==
    {[kind |-> "ok", body |-> Some([name |-> n])] : n \in OperationNames}
    \cup {[kind |-> k, body |-> None] : k \in {"HttpError", "OtherError"}}

GetOperationResponses(op) ==
    {[kind |-> "ok", body |-> Some([name |-> op, status |-> s])] : s \in OperationStatuses}
    \cup {[kind |-> k, body |-> None] : k \in {"HttpError", "OtherError"}}

\* one poll of the waiter: still running, terminal success, terminal
\* operation error or timeout (OperationError), or a failed status request
WaitPollResponses ==
    {[kind |-> k, body |-> None] : k \in {"pending", "ok", "OperationError", "HttpError"}}

Call(api, req, resp) == [api |-> api, req |-> req, resp |-> resp]

-----------------------------------------------------------------------------
(* Ways Run ends *)

Raise(kind) ==
    /\ pc' = "done"
    /\ outcome' = "raised"
    /\ error' = Some(kind)
    /\ result' = None

Return(value) ==
    /\ pc' = "done"
    /\ outcome' = "returned"
    /\ error' = None
    /\ result' = value

Continue(next) ==
    /\ pc' = next
    /\ UNCHANGED <<outcome, error, result>>

-----------------------------------------------------------------------------
Init ==
    /\ args \in ParsedArgs
    /\ core_project \in {None} \cup {Some(p) : p \in Projects}
    /\ pc = "validate"
    /\ instance_ref = None
    /\ instance_resource = None
    /\ confirmed = None
    /\ delete_result = None
    /\ operation_ref = None
    /\ waiter = "idle"
    /\ polls = 0
    /\ outcome = "running"
    /\ error = None
    /\ result = None
    /\ calls = <<>>
    /\ debug_log = <<>>
    /\ status_log = <<>>

\* Validation whose verdict is ignored.
ValidateInstanceName_Skipped ==
    /\ pc = "validate"
    /\ Continue("parse")
    /\ UNCHANGED <<args, core_project, instance_ref, instance_resource,
                   confirmed, delete_result, operation_ref, waiter, polls,
                   calls, debug_log, status_log>>

\* lines 71-76
ValidateInstanceName ==
    /\ pc = "validate"
    /\ IF IsMalformed(args.instance)
       THEN Raise("ArgumentError")
       ELSE Continue("parse")
    /\ UNCHANGED <<args, core_project, instance_ref, instance_resource,
                   confirmed, delete_result, operation_ref, waiter, polls,
                   calls, debug_log, status_log>>

\* lines 77-81
Parse ==
    /\ pc = "parse"
    /\ IF core_project = None
       THEN /\ Raise("RequiredPropertyError")
            /\ UNCHANGED instance_ref
       ELSE /\ instance_ref' = Some([project |-> core_project[1],
                                     instance |-> args.instance])
            /\ Continue("get")
    /\ UNCHANGED <<args, core_project, instance_resource, confirmed,
                   delete_result, operation_ref, waiter, polls, calls,
                   debug_log, status_log>>

\* lines 83-97
GetInstance ==
    /\ pc = "get"
    /\ \E resp \in GetInstanceResponses :
         /\ calls' = Append(calls, Call("GetInstance",
                                        [project |-> instance_ref[1].project,
                                         instance |-> instance_ref[1].instance],
                                        resp))
         /\ IF resp.kind = "ok"
            THEN /\ instance_resource' = resp.body
                 /\ Continue("prompt")
                 /\ UNCHANGED debug_log
            ELSE IF GetErrorSwallowed(resp.kind)
            THEN /\ instance_resource' = None
                 /\ debug_log' = Append(debug_log,
                        [msg |-> "Ignoring the error to get instance resource",
                         ref |-> None])
                 /\ Continue("prompt")
            ELSE /\ Raise(resp.kind)
                 /\ UNCHANGED <<instance_resource, debug_log>>
    /\ UNCHANGED <<args, core_project, instance_ref, confirmed, delete_result,
                   operation_ref, waiter, polls, status_log>>
\* A prompt whose answer is not acted on.
PromptContinue_AnswerIgnored ==
    /\ pc = "prompt"
    /\ IF instance_resource # None /\ instance_resource[1].settings = None
       THEN /\ Raise("AttributeError")
            /\ UNCHANGED <<confirmed, calls>>
       ELSE \E answer \in BOOLEAN :
              /\ calls' = Append(calls, Call("PromptContinue",
                                  [prompt |-> PromptText(instance_resource)],
                                  [kind |-> "ok", body |-> Some(answer)]))
              /\ confirmed' = Some(answer)
              /\ Continue("delete")
    /\ UNCHANGED <<args, core_project, instance_ref, instance_resource,
                   delete_result, operation_ref, waiter, polls, debug_log,
                   status_log>>

\* lines 99-116.  Reading .retainBackupsOnDelete of a resource whose settings
\* field is unset raises AttributeError before any prompt is shown.
PromptContinue ==
    /\ pc = "prompt"
    /\ IF instance_resource # None /\ instance_resource[1].settings = None
       THEN /\ Raise("AttributeError")
            /\ UNCHANGED <<confirmed, calls>>
       ELSE \E answer \in BOOLEAN :
              /\ calls' = Append(calls, Call("PromptContinue",
                                  [prompt |-> PromptText(instance_resource)],
                                  [kind |-> "ok", body |-> Some(answer)]))
              /\ confirmed' = Some(answer)
              /\ IF answer THEN Continue("delete") ELSE Return(None)
    /\ UNCHANGED <<args, core_project, instance_ref, instance_resource,
                   delete_result, operation_ref, waiter, polls, debug_log,
                   status_log>>

\* A delete call whose failure is swallowed like the GetInstance failure.
DeleteInstance_ErrorSwallowed ==
    /\ pc = "delete"
    /\ \E resp \in DeleteResponses :
         /\ calls' = Append(calls, Call("DeleteInstance",
                                        DeleteRequest(args, instance_ref[1]),
                                        resp))
         /\ IF resp.kind = "ok"
            THEN /\ delete_result' = resp.body
                 /\ Continue("opref")
                 /\ UNCHANGED debug_log
            ELSE /\ debug_log' = Append(debug_log,
                        [msg |-> "operation", ref |-> operation_ref])
                 /\ Return(None)
                 /\ UNCHANGED delete_result
    /\ UNCHANGED <<args, core_project, instance_ref, instance_resource,
                   confirmed, operation_ref, waiter, polls, status_log>>

\* A delete call that is issued again after an HttpError.
DeleteInstance_Retried ==
    /\ pc = "delete"
    /\ \E resp \in DeleteResponses :
         /\ calls' = Append(calls, Call("DeleteInstance",
                                        DeleteRequest(args, instance_ref[1]),
                                        resp))
         /\ IF resp.kind = "ok"
            THEN /\ delete_result' = resp.body
                 /\ Continue("opref")
                 /\ UNCHANGED debug_log
            ELSE IF resp.kind = "HttpError" /\ Len(calls) < 4
            THEN /\ debug_log' = Append(debug_log,
                        [msg |-> "operation", ref |-> operation_ref])
                 /\ Continue("delete")
                 /\ UNCHANGED delete_result
            ELSE /\ Raise(resp.kind)
                 /\ UNCHANGED <<delete_result, debug_log>>
    /\ UNCHANGED <<args, core_project, instance_ref, instance_resource,
                   confirmed, operation_ref, waiter, polls, status_log>>

\* lines 118-142 and, for a failed request, 158-160
DeleteInstance ==
    /\ pc = "delete"
    /\ \E resp \in DeleteResponses :
         /\ calls' = Append(calls, Call("DeleteInstance",
                                        DeleteRequest(args, instance_ref[1]),
                                        resp))
         /\ IF resp.kind = "ok"
            THEN /\ delete_result' = resp.body
                 /\ Continue("opref")
                 /\ UNCHANGED debug_log
            ELSE IF resp.kind = "HttpError"
            THEN /\ debug_log' = Append(debug_log,
                        [msg |-> "operation", ref |-> operation_ref])
                 /\ Raise(resp.kind)
                 /\ UNCHANGED delete_result
            ELSE /\ Raise(resp.kind)
                 /\ UNCHANGED <<delete_result, debug_log>>
    /\ UNCHANGED <<args, core_project, instance_ref, instance_resource,
                   confirmed, operation_ref, waiter, polls, status_log>>

\* lines 144-147
CreateOperationRef ==
    /\ pc = "opref"
    /\ operation_ref' = Some([project |-> instance_ref[1].project,
                              operation |-> delete_result[1].name])
    /\ Continue(AfterCreate(args))
    /\ UNCHANGED <<args, core_project, instance_ref, instance_resource,
                   confirmed, delete_result, waiter, polls, calls, debug_log,
                   status_log>>

\* lines 148-151 and, for a failed request, 158-160
GetOperation ==
    /\ pc = "getop"
    /\ \E resp \in GetOperationResponses(operation_ref[1].operation) :
         /\ calls' = Append(calls, Call("GetOperation",
                                        [project |-> operation_ref[1].project,
                                         operation |-> operation_ref[1].operation],
                                        resp))
         /\ IF resp.kind = "ok"
            THEN /\ Return(resp.body)
                 /\ UNCHANGED debug_log
            ELSE IF resp.kind = "HttpError"
            THEN /\ debug_log' = Append(debug_log,
                        [msg |-> "operation", ref |-> operation_ref])
                 /\ Raise(resp.kind)
            ELSE /\ Raise(resp.kind)
                 /\ UNCHANGED debug_log
    /\ UNCHANGED <<args, core_project, instance_ref, instance_resource,
                   confirmed, delete_result, operation_ref, waiter, polls,
                   status_log>>

\* lines 153-154 and, for a failed wait, 158-160: one poll of
\* operations.OperationsV1Beta4.WaitForOperation.  The waiter polls until the
\* operation is terminal; after MaxPolls polls it gives up with an
\* OperationError.
WaitForOperation ==
    /\ pc = "wait"
    /\ \E resp \in WaitPollResponses :
         /\ resp.kind = "pending" => polls + 1 < MaxPolls
         /\ polls' = polls + 1
         /\ calls' = Append(calls, Call("WaitForOperation",
                                        [project |-> operation_ref[1].project,
                                         operation |-> operation_ref[1].operation],
                                        resp))
         /\ IF resp.kind = "pending"
            THEN /\ waiter' = "polling"
                 /\ Continue("wait")
                 /\ UNCHANGED debug_log
            ELSE IF resp.kind = "ok"
            THEN /\ waiter' = "success"
                 /\ Continue("log")
                 /\ UNCHANGED debug_log
            ELSE IF resp.kind = "HttpError"
            THEN /\ waiter' = "error"
                 /\ debug_log' = Append(debug_log,
                        [msg |-> "operation", ref |-> operation_ref])
                 /\ Raise(resp.kind)
            ELSE /\ waiter' = "error"
                 /\ Raise(resp.kind)
                 /\ UNCHANGED debug_log
    /\ UNCHANGED <<args, core_project, instance_ref, instance_resource,
                   confirmed, delete_result, operation_ref, status_log>>

\* line 156, then the implicit return None
LogDeleted ==
    /\ pc = "log"
    /\ status_log' = Append(status_log, [msg |-> "Deleted", ref |-> instance_ref[1]])
    /\ Return(None)
    /\ UNCHANGED <<args, core_project, instance_ref, instance_resource,
                   confirmed, delete_result, operation_ref, waiter, polls,
                   calls, debug_log>>

Next ==
    \/ ValidateInstanceName
    \/ Parse
    \/ GetInstance
    \/ PromptContinue
    \/ DeleteInstance
    \/ CreateOperationRef
    \/ GetOperation
    \/ WaitForOperation
    \/ LogDeleted

Spec == Init /\ [][Next]_vars

\* Run is one thread of straight-line code: while a step is possible, the
\* interpreter takes it.
FairSpec == Spec /\ WF_vars(Next)
-----------------------------------------------------------------------------
(* Observations on the run *)

Issued(api) == {i \in DOMAIN calls : calls[i].api = api}
Count(api) == Cardinality(Issued(api))
Failed(c) == c.resp.kind \notin {"ok", "pending"}
Done == pc = "done"
Returned == Done /\ outcome = "returned"
Raised == Done /\ outcome = "raised"
DeleteSucceeded == \E i \in Issued("DeleteInstance") : calls[i].resp.kind = "ok"
DeleteFailed == \E i \in Issued("DeleteInstance") : Failed(calls[i])
GetInstanceFailedWith(kinds) ==
    \E i \in Issued("GetInstance") : calls[i].resp.kind \in kinds
NoCallsAfterPrompt ==
    /\ Count("DeleteInstance") = 0
    /\ Count("GetOperation") = 0
    /\ Count("WaitForOperation") = 0

-----------------------------------------------------------------------------
(* Claims *)

\* C1: DeleteInstance is issued only after PromptContinue returned true; when
\* PromptContinue returns false no DeleteInstance, GetOperation or wait is
\* issued, nothing is logged as deleted, and Run returns None without raising.
C1_DeleteOnlyAfterConfirmation ==
    /\ \A i \in Issued("DeleteInstance") :
         \E j \in 1 .. (i - 1) :
            /\ calls[j].api = "PromptContinue"
            /\ calls[j].resp.body = Some(TRUE)
    /\ confirmed = Some(FALSE) =>
         /\ NoCallsAfterPrompt
         /\ status_log = <<>>
         /\ Returned
         /\ result = None
         /\ error = None

C1_Witness == confirmed = Some(FALSE) /\ Done /\ Count("GetInstance") = 1

\* C2: a malformed instance name, and likewise an unresolvable project, ends
\* Run in a raised error with no GetInstance, prompt, DeleteInstance,
\* GetOperation or wait having been issued.
C2_FailsBeforeAnyCall ==
    (IsMalformed(args.instance) \/ core_project = None) =>
        /\ calls = <<>>
        /\ Done => Raised
        /\ pc \in {"validate", "parse", "done"}

C2_Witness == IsMalformed(args.instance) /\ Raised /\ core_project # None

C4_PromptWording ==
    \A i \in Issued("PromptContinue") :
        LET retained ==
              \E j \in Issued("GetInstance") :
                 /\ calls[j].resp.kind = "ok"
                 /\ calls[j].resp.body[1].settings # None
                 /\ calls[j].resp.body[1].settings[1].retainBackupsOnDelete = Some(TRUE)
        IN /\ (calls[i].req.prompt = RetainPrompt) <=> retained
           /\ ~retained => calls[i].req.prompt = DefaultPrompt

C4_Witness ==
    \E i \in Issued("PromptContinue") : calls[i].req.prompt = RetainPrompt

\* C5: in async mode, after DeleteInstance succeeded the waiter is never
\* invoked and no deletion is logged; Run ends having issued exactly one
\* GetOperation, for the instance's project and the operation name that
\* DeleteInstance returned, and what Run returns is that call's response.
C5_AsyncReturnsOperation ==
    (args.async_ /\ DeleteSucceeded) =>
        /\ Count("WaitForOperation") = 0
        /\ status_log = <<>>
        /\ Count("GetOperation") <= 1
        /\ \A i \in Issued("GetOperation") :
             calls[i].req = [project |-> instance_ref[1].project,
                             operation |-> delete_result[1].name]
        /\ Done =>
             /\ Count("GetOperation") = 1
             /\ Returned => result = calls[Len(calls)].resp.body /\ result # None

C5_Witness ==
    /\ args.async_
    /\ Returned
    /\ result = Some([name |-> "op2", status |-> "RUNNING"])

\* C6, safety part: in sync mode after a successful DeleteInstance, Run is
\* finished only once the waiter is terminal, and the deletion of the resolved
\* instance reference is logged only after the waiter reported success.
C6_SyncSafety ==
    (~args.async_ /\ DeleteSucceeded) =>
        /\ Done => waiter \in {"success", "error"}
        /\ Count("GetOperation") = 0
        /\ status_log # <<>> =>
             /\ waiter = "success"
             /\ status_log = <<[msg |-> "Deleted", ref |-> instance_ref[1]]>>
        /\ Returned => status_log # <<>> /\ result = None

C7_FailuresPropagate ==
    /\ \A i \in DOMAIN calls :
         (calls[i].api \in {"DeleteInstance", "GetOperation", "WaitForOperation"}
          /\ Failed(calls[i])) =>
            /\ i = Len(calls)
            /\ Raised
            /\ error = Some(calls[i].resp.kind)
    /\ DeleteFailed =>
         /\ operation_ref = None
         /\ \A k \in DOMAIN debug_log : debug_log[k].ref = None
         /\ Count("GetOperation") = 0
         /\ Count("WaitForOperation") = 0
         /\ status_log = <<>>

C7_Witness ==
    /\ DeleteFailed
    /\ error = Some("HttpError")
    /\ \E k \in DOMAIN debug_log : debug_log[k].msg = "operation"

\* C8: finalBackupTtlDays of the delete request is absent when the
\* final_backup_retention_days flag is absent or <= 0, and is the flag value
\* when the flag is > 0.
C8_RetentionDaysNormalised ==
    \A i \in Issued("DeleteInstance") :
        LET flag == args.final_backup_retention_days
            ttl == calls[i].req.finalBackupTtlDays
        IN /\ flag = None => ttl = None
           /\ (flag # None /\ flag[1] <= 0) => ttl = None
           /\ (flag # None /\ flag[1] > 0) => ttl = flag

C8_Witness ==
    /\ Count("DeleteInstance") = 1
    /\ args.final_backup_retention_days = Some(0)

\* C9: Run retries nothing: GetInstance, DeleteInstance and GetOperation are
\* each issued at most once, and a finished run in which the user confirmed
\* issued DeleteInstance exactly once.
C9_NoRetries ==
    /\ Count("GetInstance") <= 1
    /\ Count("DeleteInstance") <= 1
    /\ Count("GetOperation") <= 1
    /\ (Done /\ confirmed = Some(TRUE)) => Count("DeleteInstance") = 1

C9_Witness ==
    /\ Done
    /\ confirmed = Some(TRUE)
    /\ DeleteFailed
    /\ GetInstanceFailedWith({"HttpError"})

\* C10: every DeleteInstance request sets at most one of finalBackupTtlDays
\* and finalBackupExpiryTime; the two flags are never both supplied;
\* finalBackupExpiryTime is set only when the expiry flag was supplied and
\* finalBackupTtlDays only when the retention flag was supplied and positive.
C10_AtMostOneExpiryField ==
    /\ ~(args.final_backup_expiry_time # None
         /\ args.final_backup_retention_days # None)
    /\ \A i \in Issued("DeleteInstance") :
         LET req == calls[i].req
         IN /\ ~(req.finalBackupTtlDays # None /\ req.finalBackupExpiryTime # None)
            /\ req.finalBackupExpiryTime # None =>
                 args.final_backup_expiry_time # None
            /\ req.finalBackupTtlDays # None =>
                 /\ args.final_backup_retention_days # None
                 /\ args.final_backup_retention_days[1] > 0

C10_Witness ==
    \E i \in Issued("DeleteInstance") :
        calls[i].req.finalBackupExpiryTime = Some("2027-12-31T23:59:59.123456Z")
=============================================================================
